---- MODULE Spec2Model ----
(***************************************************************************)
(* The Sudoku solver and generator of src/src/sudoku.rs as a state         *)
(* machine.  The recursive call chain assign -> eliminate -> eliminate /   *)
(* assign, search -> internal_solve -> assign / search, and the loops of   *)
(* apply_start_state and randomize are run on an explicit call stack: one  *)
(* step is one loop iteration or one return.  `values` is the candidate    *)
(* map of the State object the running call works on; a search frame keeps *)
(* the candidate map of its own State (`self`) while a child clone runs.   *)
(***************************************************************************)
EXTENDS Integers, Sequences, FiniteSets, TLC

VARIABLES
  values,       \* State.values of the State the running call works on
  stack,        \* call stack, innermost call first
  ret,          \* value returned by the call that ended last: "none", "true", "false"
  order,        \* iteration order of the hash sets and maps: "asc" or "desc"
  rng,          \* state of the random number stream of the running attempt
  n,            \* argument of the running Generator::generate call
  start_state,  \* argument of the running Solver::solve call
  generated,    \* <<>> or <<s>>, s the StartState Generator::generate returned
  result        \* "none", "Ok" or the Err string of Solver::solve / solve_str

vars == <<values, stack, ret, order, rng, n, start_state, generated, result>>

----------------------------------------------------------------------------
(* Bounds of the model *)

\* The random streams an attempt may draw: Seed(1) .. Seed(NumSeeds).
NumSeeds == 4

----------------------------------------------------------------------------
(* Config::new : the topology *)

digits == 1..9

\* A SquareId is modelled by its position in config.squares ('A1' is 1,
\* 'A2' is 2, ..., 'I9' is 81).
squares == 1..81

Row(s) == (s - 1) \div 9

Col(s) == (s - 1) % 9

\* Rows 'A'..'I', then columns '1'..'9', then the boxes.
unitlist ==
  [i \in 1..27 |->
     IF i <= 9 THEN {s \in squares : Row(s) = i - 1}
     ELSE IF i <= 18 THEN {s \in squares : Col(s) = i - 10}
     ELSE {s \in squares : /\ Row(s) \div 3 = (i - 19) \div 3
                           /\ Col(s) \div 3 = (i - 19) % 3}]

units == [s \in squares |-> SelectSeq(unitlist, LAMBDA u : s \in u)]

peers == [s \in squares |-> (UNION {units[s][i] : i \in 1..Len(units[s])}) \ {s}]

\* config.values, cloned by State::new
NewValues == [s \in squares |-> digits]

----------------------------------------------------------------------------
(* Iteration over HashSet / HashMap.  The order is unspecified; the model  *)
(* draws it from ascending and descending.                                 *)

\* the elements of a set of numbers, smallest first
Asc(S) ==
  [i \in 1..Cardinality(S) |->
     CHOOSE x \in S : Cardinality({y \in S : y < x}) = i - 1]

\* the elements of a set of numbers, largest first
Desc(S) ==
  [i \in 1..Cardinality(S) |->
     CHOOSE x \in S : Cardinality({y \in S : y > x}) = i - 1]

Orders == {"asc", "desc"}

Iter(S) == IF order = "asc" THEN Asc(S) ELSE Desc(S)

----------------------------------------------------------------------------
(* Call stack *)

\* fn: the function; pc: where it stands; square, value: its arguments;
\* d2: eliminate's d2; rest: what its loop has still to visit; urest: the
\* units eliminate has still to visit; saved: search's own (self) values.
Frame(fn, pc, square, value, rest) ==
  [fn |-> fn, pc |-> pc, square |-> square, value |-> value, d2 |-> 0,
   rest |-> rest, urest |-> <<>>, saved |-> <<>>]

Top == Head(stack)

Running(fn) == stack # <<>> /\ Top.fn = fn

\* The caller's frame with its iterator advanced by one element.
Advance == <<[Top EXCEPT !.rest = Tail(@)]>> \o Tail(stack)

AdvanceUnit == <<[Top EXCEPT !.urest = Tail(@)]>> \o Tail(stack)

Return(r) == stack' = Tail(stack) /\ ret' = r

----------------------------------------------------------------------------
(* State::assign and State::eliminate *)

\* remove_values of assign: the candidates of square other than value
remove_values(vals, square, value) == vals[square] \ {value}

\* Call of assign(square, value) with `caller` the stack to return to.
assign(caller, square, value) ==
  /\ stack' = <<Frame("assign", "loop", square, value,
                      Iter(remove_values(values, square, value)))>> \o caller
  /\ values' = values
  /\ ret' = "none"

\* the squares of unit u that still hold value
places(vals, u, value) == {s \in u : value \in vals[s]}

\* d2 of eliminate: the one value left in the square
d2(vs) == CHOOSE d \in vs : TRUE

\* eliminate with a slip: the early return for a value already eliminated
\* is missing
eliminate_again(caller, square, value) ==
  LET vs == values[square] \ {value} IN
  /\ values' = [values EXCEPT ![square] = vs]
  /\ IF vs = {}
     THEN stack' = caller /\ ret' = "false"
     ELSE /\ stack' =
               <<[Frame("eliminate", "loop", square, value,
                        IF Cardinality(vs) = 1
                        THEN Iter(peers[square]) ELSE <<>>)
                  EXCEPT !.d2 = IF Cardinality(vs) = 1
                                THEN d2(vs) ELSE 0,
                         !.urest = units[square]]>> \o caller
          /\ ret' = "none"

\* Call of eliminate(square, value) with `caller` the stack to return to:
\* the removal, the contradiction test and the choice of the loops to run.
eliminate(caller, square, value) ==
  LET vs == values[square] \ {value} IN
  IF value \notin values[square]
  THEN /\ values' = values        \* already eliminated
       /\ stack' = caller
       /\ ret' = "true"
  ELSE /\ values' = [values EXCEPT ![square] = vs]
       /\ IF vs = {}
          THEN stack' = caller /\ ret' = "false"
          ELSE /\ stack' =
                    <<[Frame("eliminate", "loop", square, value,
                             IF Cardinality(vs) = 1
                             THEN Iter(peers[square]) ELSE <<>>)
                       EXCEPT !.d2 = IF Cardinality(vs) = 1
                                     THEN d2(vs) ELSE 0,
                              !.urest = units[square]]>> \o caller
               /\ ret' = "none"

\* assign, one iteration of `all` over remove_values
AssignLoop ==
  /\ Running("assign")
  /\ ret # "false"
  /\ Top.rest # <<>>
  /\ eliminate(Advance, Top.square, Head(Top.rest))
  /\ UNCHANGED <<order, rng, n, start_state, generated, result>>

\* assign with a slip: the result of `all` is dropped and true returned
AssignReturn_ignored ==
  /\ Running("assign")
  /\ ret = "false" \/ Top.rest = <<>>
  /\ Return("true")
  /\ UNCHANGED <<values, order, rng, n, start_state, generated, result>>

\* assign returns: false as soon as an eliminate failed, true at the end
AssignReturn ==
  /\ Running("assign")
  /\ ret = "false" \/ Top.rest = <<>>
  /\ Return(IF ret = "false" THEN "false" ELSE "true")
  /\ UNCHANGED <<values, order, rng, n, start_state, generated, result>>

\* eliminate (1), one iteration of `all` over the peers
EliminatePeer ==
  /\ Running("eliminate")
  /\ ret # "false"
  /\ Top.rest # <<>>
  /\ eliminate(Advance, Head(Top.rest), Top.d2)
  /\ UNCHANGED <<order, rng, n, start_state, generated, result>>

\* eliminate (2), one iteration over the units of square
EliminateUnit ==
  /\ Running("eliminate")
  /\ ret # "false"
  /\ Top.rest = <<>>
  /\ Top.urest # <<>>
  /\ LET p == places(values, Head(Top.urest), Top.value) IN
     IF p = {}
     THEN Return("false") /\ values' = values
     ELSE IF Cardinality(p) = 1
     THEN assign(AdvanceUnit, CHOOSE s \in p : TRUE, Top.value)
     ELSE stack' = AdvanceUnit /\ ret' = "none" /\ values' = values
  /\ UNCHANGED <<order, rng, n, start_state, generated, result>>

\* eliminate with a slip: a failure below is not passed on, eliminate
\* returns true
EliminateReturn_ignored ==
  /\ Running("eliminate")
  /\ ret = "false" \/ (Top.rest = <<>> /\ Top.urest = <<>>)
  /\ Return("true")
  /\ UNCHANGED <<values, order, rng, n, start_state, generated, result>>

\* eliminate returns: false when a peer's eliminate or a unit's assign
\* failed, true after the last unit
EliminateReturn ==
  /\ Running("eliminate")
  /\ ret = "false" \/ (Top.rest = <<>> /\ Top.urest = <<>>)
  /\ Return(IF ret = "false" THEN "false" ELSE "true")
  /\ UNCHANGED <<values, order, rng, n, start_state, generated, result>>

----------------------------------------------------------------------------
(* State::search, State::internal_solve, State::is_solved *)

\* is_solved with a slip: `>= 1` for `== 1`
is_solved_nonempty(vals) == \A s \in squares : Cardinality(vals[s]) >= 1

is_solved(vals) == \A s \in squares : Cardinality(vals[s]) = 1

\* The unsolved square with the fewest candidates, the first such in
\* config.squares (Iterator::min_by_key keeps the first minimum).
min_square(vals) ==
  CHOOSE s \in squares :
    /\ Cardinality(vals[s]) > 1
    /\ \A t \in squares :
         Cardinality(vals[t]) > 1 =>
           \/ Cardinality(vals[s]) < Cardinality(vals[t])
           \/ Cardinality(vals[s]) = Cardinality(vals[t]) /\ s <= t

\* the number of squares that have v as a candidate
count(vals, v) == Cardinality({s \in squares : v \in vals[s]})

\* vs sorted by count; sort_by is stable: the element of vs at position k
\* goes behind those of a smaller count and those of the same count before it
sort_by(vals, vs) ==
  LET before(k) == {j \in 1..Len(vs) :
                      \/ count(vals, vs[j]) < count(vals, vs[k])
                      \/ count(vals, vs[j]) = count(vals, vs[k]) /\ j < k}
  IN [i \in 1..Len(vs) |->
        vs[CHOOSE k \in 1..Len(vs) : Cardinality(before(k)) = i - 1]]

\* sort_values with a slip: the vector is cut after its first element
sort_values_first(vals, square) == SubSeq(sort_by(vals, Iter(vals[square])), 1, 1)

\* the candidates of square, least frequent candidate of the grid first
sort_values(vals, square) == sort_by(vals, Iter(vals[square]))

\* search, up to the loop: done when solved, else choose the square
Search ==
  /\ Running("search")
  /\ Top.pc = "enter"
  /\ IF is_solved(values)
     THEN Return("true")
     ELSE /\ stack' = <<[Top EXCEPT !.pc = "loop",
                                    !.square = min_square(values),
                                    !.rest = sort_values(values, min_square(values)),
                                    !.saved = values]>> \o Tail(stack)
          /\ ret' = "none"
  /\ UNCHANGED <<values, order, rng, n, start_state, generated, result>>

\* search with a slip: the child is State::new(config) for self.clone()
SearchChild_new ==
  /\ Running("search")
  /\ Top.pc = "loop"
  /\ ret # "true"
  /\ Top.rest # <<>>
  /\ values' = NewValues
  /\ stack' = <<Frame("assign", "loop", Top.square, Head(Top.rest),
                      Iter(remove_values(NewValues, Top.square, Head(Top.rest)))),
                Frame("internal_solve", "assign", Top.square, Head(Top.rest), <<>>)>>
              \o Advance
  /\ ret' = "none"
  /\ UNCHANGED <<order, rng, n, start_state, generated, result>>

\* search, one iteration of the loop: clone self and call the clone's
\* internal_solve, which calls assign
SearchChild ==
  /\ Running("search")
  /\ Top.pc = "loop"
  /\ ret # "true"
  /\ Top.rest # <<>>
  /\ values' = Top.saved
  /\ stack' = <<Frame("assign", "loop", Top.square, Head(Top.rest),
                      Iter(remove_values(Top.saved, Top.square, Head(Top.rest)))),
                Frame("internal_solve", "assign", Top.square, Head(Top.rest), <<>>)>>
              \o Advance
  /\ ret' = "none"
  /\ UNCHANGED <<order, rng, n, start_state, generated, result>>

\* search returns: true with the child's values once a child succeeded,
\* false with its own values after the last candidate
SearchReturn ==
  /\ Running("search")
  /\ Top.pc = "loop"
  /\ ret = "true" \/ Top.rest = <<>>
  /\ values' = IF ret = "true" THEN values ELSE Top.saved
  /\ Return(IF ret = "true" THEN "true" ELSE "false")
  /\ UNCHANGED <<order, rng, n, start_state, generated, result>>

\* internal_solve after its assign: false, or on to search
InternalSolve ==
  /\ Running("internal_solve")
  /\ Top.pc = "assign"
  /\ IF ret = "false"
     THEN Return("false")
     ELSE /\ stack' = <<Frame("search", "enter", 0, 0, <<>>),
                        [Top EXCEPT !.pc = "search"]>> \o Tail(stack)
          /\ ret' = "none"
  /\ UNCHANGED <<values, order, rng, n, start_state, generated, result>>

\* internal_solve returns what its search returned
InternalSolveReturn ==
  /\ Running("internal_solve")
  /\ Top.pc = "search"
  /\ Return(ret)
  /\ UNCHANGED <<values, order, rng, n, start_state, generated, result>>

----------------------------------------------------------------------------
(* Solver::solve, State::solve, State::apply_start_state *)

\* Solver::solve: a new State, on which State::solve(start_state) is called
solve(state) ==
  /\ values' = NewValues
  /\ start_state' = state
  /\ stack' = <<Frame("apply_start_state", "loop", 0, 0, state),
                Frame("solve", "apply", 0, 0, <<>>)>>
  /\ ret' = "none"

\* apply_start_state, one iteration over the start state
ApplyStartState ==
  /\ Running("apply_start_state")
  /\ ret # "false"
  /\ Top.rest # <<>>
  /\ LET s == Head(Top.rest)[1]
         v == Head(Top.rest)[2]
     IN IF v # 0
        THEN assign(Advance, s, v)
        ELSE stack' = Advance /\ ret' = "none" /\ values' = values
  /\ UNCHANGED <<order, rng, n, start_state, generated, result>>

\* apply_start_state returns: false when an assign failed, true at the end
ApplyStartStateReturn ==
  /\ Running("apply_start_state")
  /\ ret = "false" \/ Top.rest = <<>>
  /\ Return(IF ret = "false" THEN "false" ELSE "true")
  /\ UNCHANGED <<values, order, rng, n, start_state, generated, result>>

\* State::solve with a slip: the result of apply_start_state is not tested
StateSolve_unchecked ==
  /\ Running("solve")
  /\ Top.pc = "apply"
  /\ stack' = <<Frame("search", "enter", 0, 0, <<>>),
                [Top EXCEPT !.pc = "search"]>> \o Tail(stack)
  /\ ret' = "none"
  /\ UNCHANGED <<values, order, rng, n, start_state, generated, result>>

\* State::solve after apply_start_state: on to search unless it failed
StateSolve ==
  /\ Running("solve")
  /\ Top.pc = "apply"
  /\ ret = "true"
  /\ stack' = <<Frame("search", "enter", 0, 0, <<>>),
                [Top EXCEPT !.pc = "search"]>> \o Tail(stack)
  /\ ret' = "none"
  /\ UNCHANGED <<values, order, rng, n, start_state, generated, result>>

\* State::solve returns and Solver::solve makes its Result of it
SolverSolveReturn ==
  /\ Running("solve")
  /\ Top.pc = "search" \/ ret = "false"
  /\ result' = IF ret = "true" THEN "Ok" ELSE "Failed solving puzzle"
  /\ stack' = Tail(stack)
  /\ UNCHANGED <<values, ret, order, rng, n, start_state, generated>>

\* The start states Solver::solve is called with directly: a clue given
\* twice, squares out of order with a zero entry, two clues of a box.
StartStates ==
  { <<<<1, 5>>, <<1, 5>>, <<2, 3>>>>,
    <<<<81, 9>>, <<40, 0>>, <<1, 1>>>>,
    <<<<1, 4>>, <<11, 4>>>> }

\* Solver::solve
Solve ==
  /\ stack = <<>> /\ result = "none" /\ generated = <<>>
  /\ \E state \in StartStates : solve(state)
  /\ UNCHANGED <<order, rng, n, generated, result>>

----------------------------------------------------------------------------
(* StringStartStateHandler.  A String is a sequence of characters. *)

\* char::to_digit(10), defined on the decimal digits only
to_digit ==
  [c \in {"0", "1", "2", "3", "4", "5", "6", "7", "8", "9"} |->
     CASE c = "0" -> 0 [] c = "1" -> 1 [] c = "2" -> 2 [] c = "3" -> 3
       [] c = "4" -> 4 [] c = "5" -> 5 [] c = "6" -> 6 [] c = "7" -> 7
       [] c = "8" -> 8 [] c = "9" -> 9]

\* char::from_digit(value, 10) for a value below 10
from_digit == [v \in 0..9 |-> CHOOSE c \in DOMAIN to_digit : to_digit[c] = v]

\* parse of a grid of the right length: every square in config.squares
\* order, with its digit or 0
parse(grid) ==
  [i \in 1..81 |->
     <<i, IF grid[i] \in DOMAIN to_digit /\ to_digit[grid[i]] \in digits
          THEN to_digit[grid[i]] ELSE 0>>]

\* the index among 1..i of the last entry of state for square, 0 if none
RECURSIVE last_index(_, _, _)
last_index(state, i, square) ==
  IF i = 0 THEN 0
  ELSE IF state[i][1] = square THEN i
  ELSE last_index(state, i - 1, square)

\* StringStartStateHandler::generate: '.' but for the squares of state
generate_string(state) ==
  [i \in 1..81 |->
     IF last_index(state, Len(state), i) = 0 THEN "."
     ELSE from_digit[state[last_index(state, Len(state), i)][2]]]

----------------------------------------------------------------------------
(* The grids solve_str is called with *)

\* main.rs
easy ==
  <<
    ".", ".", "3", ".", "2", ".", "6", ".", ".",
    "9", ".", ".", "3", ".", "5", ".", ".", "1",
    ".", ".", "1", "8", ".", "6", "4", ".", ".",
    ".", ".", "8", "1", ".", "2", "9", ".", ".",
    "7", ".", ".", ".", ".", ".", ".", ".", "8",
    ".", ".", "6", "7", ".", "8", "2", ".", ".",
    ".", ".", "2", "6", ".", "9", "5", ".", ".",
    "8", ".", ".", "2", ".", "3", ".", ".", "9",
    ".", ".", "5", ".", "1", ".", "3", ".", "."
  >>

hard ==
  <<
    "4", ".", ".", ".", ".", ".", "8", ".", "5",
    ".", "3", ".", ".", ".", ".", ".", ".", ".",
    ".", ".", ".", "7", ".", ".", ".", ".", ".",
    ".", "2", ".", ".", ".", ".", ".", "6", ".",
    ".", ".", ".", ".", "8", ".", "4", ".", ".",
    ".", ".", ".", ".", "1", ".", ".", ".", ".",
    ".", ".", ".", "6", ".", "3", ".", "7", ".",
    "5", ".", ".", "2", ".", ".", ".", ".", ".",
    "1", ".", "4", ".", ".", ".", ".", ".", "."
  >>

hardest ==
  <<
    ".", ".", ".", ".", ".", "6", ".", ".", ".",
    ".", "5", "9", ".", ".", ".", ".", ".", "8",
    "2", ".", ".", ".", ".", "8", ".", ".", ".",
    ".", "4", "5", ".", ".", ".", ".", ".", ".",
    ".", ".", "3", ".", ".", ".", ".", ".", ".",
    ".", ".", "6", ".", ".", "3", ".", "5", "4",
    ".", ".", ".", "3", "2", "5", ".", ".", "6",
    ".", ".", ".", ".", ".", ".", ".", ".", ".",
    ".", ".", ".", ".", ".", ".", ".", ".", "."
  >>

\* 81 blanks
blank == [i \in 1..81 |-> "."]

\* 81 times the same digit
fives == [i \in 1..81 |-> "5"]

\* one character short
short == [i \in 1..80 |-> "."]

\* a completed grid: band r mod 3, stack r div 3, shifted by the column
Pattern ==
  [s \in squares |-> ((3 * (Row(s) % 3) + (Row(s) \div 3) + Col(s)) % 9) + 1]

\* the clues of Pattern on the squares s with s - 1 = j modulo k
Masked(k, j) ==
  [s \in squares |-> IF (s - 1) % k = j THEN from_digit[Pattern[s]] ELSE "."]

\* grid with the character of square s replaced by c
With(grid, s, c) == [grid EXCEPT ![s] = c]

Grids ==
  { easy, hard, hardest, blank, fives, short, Masked(4, 0),
    With(easy, 81, "5"),
    With(With(blank, 1, "1"), 2, "1"),
    With(With(blank, 11, "7"), 1, "7"),
    With(With(blank, 73, "9"), 1, "9") }

\* Solver::solve_str
SolveStr ==
  /\ stack = <<>> /\ result = "none" /\ generated = <<>>
  /\ \E grid \in Grids :
       IF Len(grid) # 81
       THEN /\ result' = "Incorrect length"
            /\ UNCHANGED <<values, stack, ret, start_state>>
       ELSE solve(parse(grid)) /\ result' = "none"
  /\ UNCHANGED <<order, rng, n, generated>>

----------------------------------------------------------------------------
(* Generator::generate, State::generate, State::randomize, State::encode *)

\* The values of n the model calls generate with.
Counts == {0, 17, 81, 82}

\* rand::thread_rng: a linear congruential stream
Rand(x) == (x * 75 + 74) % 65537

Seed(i) == 101 * i

swap(sq, i, j) == [sq EXCEPT ![i] = sq[j], ![j] = sq[i]]

\* Rng::shuffle: the elements beyond i are locked in place
RECURSIVE shuffle(_, _, _)
shuffle(sq, i, x) ==
  IF i < 2 THEN [squares |-> sq, rng |-> x]
  ELSE LET x1 == Rand(x)
           sq1 == swap(sq, i, (x1 % i) + 1)
       IN IF x1 \in Nat /\ Len(sq1) = Len(sq)
          THEN shuffle(sq1, i - 1, x1)
          ELSE [squares |-> sq, rng |-> x]

\* config.squares shuffled with the stream i, and the stream after it
shuffled == [i \in 1..NumSeeds |-> shuffle([s \in squares |-> s], 81, Seed(i))]

\* Rng::choose
choose(vals, x) == vals[(x % Len(vals)) + 1]

\* the squares with one candidate
singles(vals) == {s \in squares : Cardinality(vals[s]) = 1}

\* randomize's test with a slip: `||` for `&&`
threshold_either(vals, k) ==
  \/ Cardinality(singles(vals)) >= k
  \/ Cardinality(UNION {vals[s] : s \in singles(vals)}) >= 8

\* randomize's test with a slip: `>` for `>=` on the number of values
threshold_above(vals, k) ==
  /\ Cardinality(singles(vals)) > k
  /\ Cardinality(UNION {vals[s] : s \in singles(vals)}) >= 8

\* randomize's test after each assign: d_values has one entry for each
\* square with one candidate
threshold(vals, k) ==
  /\ Cardinality(singles(vals)) >= k
  /\ Cardinality(UNION {vals[s] : s \in singles(vals)}) >= 8

\* State::encode, in the iteration order of the map
encode(vals) ==
  LET ss == Iter(singles(vals))
  IN [i \in 1..Len(ss) |-> <<ss[i], d2(vals[ss[i]])>>]

\* Generator::generate is called
Generate ==
  /\ stack = <<>> /\ result = "none" /\ generated = <<>>
  /\ \E k \in Counts : n' = k
  /\ stack' = <<Frame("generate", "loop", 0, 0, <<>>)>>
  /\ ret' = "none"
  /\ UNCHANGED <<values, order, rng, start_state, generated, result>>

\* Generator::generate, one iteration of its loop: a new State, whose
\* generate calls randomize, which shuffles the squares with the stream i
GenerateAttempt(i) ==
  /\ Running("generate")
  /\ ret # "true"
  /\ rng' = shuffled[i].rng
  /\ stack' = <<Frame("randomize", "loop", 0, 0, shuffled[i].squares)>> \o stack
  /\ values' = NewValues
  /\ ret' = "none"
  /\ UNCHANGED <<order, n, start_state, generated, result>>

GenerateLoop == \E i \in 1..NumSeeds : GenerateAttempt(i)

\* randomize, one iteration: assign a random candidate to the next square
RandomizeLoop ==
  /\ Running("randomize")
  /\ ret # "false"
  /\ ret = "true" => ~threshold(values, n)
  /\ Top.rest # <<>>
  /\ rng' = Rand(rng)
  /\ assign(Advance, Head(Top.rest), choose(Iter(values[Head(Top.rest)]), Rand(rng)))
  /\ UNCHANGED <<order, n, start_state, generated, result>>

\* randomize returns Err after a failed assign
RandomizeContradiction ==
  /\ Running("randomize")
  /\ ret = "false"
  /\ Return("false")
  /\ UNCHANGED <<values, order, rng, n, start_state, generated, result>>

\* randomize returns Ok once the test holds
RandomizeOk ==
  /\ Running("randomize")
  /\ ret = "true"
  /\ threshold(values, n)
  /\ Return("true")
  /\ UNCHANGED <<values, order, rng, n, start_state, generated, result>>

\* randomize returns Err at the end of the squares
RandomizeExhausted ==
  /\ Running("randomize")
  /\ ret = "true"
  /\ ~threshold(values, n)
  /\ Top.rest = <<>>
  /\ Return("false")
  /\ UNCHANGED <<values, order, rng, n, start_state, generated, result>>

\* State::generate encodes the state and Generator::generate returns it
GenerateReturn ==
  /\ Running("generate")
  /\ ret = "true"
  /\ generated' = <<encode(values)>>
  /\ stack' = Tail(stack)
  /\ UNCHANGED <<values, ret, order, rng, n, start_state, result>>

\* main.rs: solve_str(generate_str(n))
SolveStrGenerated ==
  /\ stack = <<>> /\ result = "none" /\ generated # <<>>
  /\ solve(parse(generate_string(generated[1])))
  /\ UNCHANGED <<order, rng, n, generated, result>>

\* Solver::solve called with the StartState Generator::generate returned
SolveGenerated ==
  /\ stack = <<>> /\ result = "none" /\ generated # <<>>
  /\ solve(generated[1])
  /\ UNCHANGED <<order, rng, n, generated, result>>

----------------------------------------------------------------------------
(* The state machine *)

Init ==
  /\ values = NewValues
  /\ stack = <<>>
  /\ ret = "none"
  /\ order \in Orders
  /\ rng = 0
  /\ n = 0
  /\ start_state = <<>>
  /\ generated = <<>>
  /\ result = "none"

Next ==
  \/ Solve
  \/ SolveStr
  \/ ApplyStartState
  \/ ApplyStartStateReturn
  \/ StateSolve
  \/ SolverSolveReturn
  \/ AssignLoop
  \/ AssignReturn
  \/ EliminatePeer
  \/ EliminateUnit
  \/ EliminateReturn
  \/ Search
  \/ SearchChild
  \/ SearchReturn
  \/ InternalSolve
  \/ InternalSolveReturn
  \/ Generate
  \/ GenerateLoop
  \/ RandomizeLoop
  \/ RandomizeContradiction
  \/ RandomizeOk
  \/ RandomizeExhausted
  \/ GenerateReturn
  \/ SolveStrGenerated
  \/ SolveGenerated

Spec == Init /\ [][Next]_vars

\* Generator::generate alone, up to its return
GenNext ==
  \/ Generate
  \/ GenerateLoop
  \/ RandomizeLoop
  \/ RandomizeContradiction
  \/ RandomizeOk
  \/ RandomizeExhausted
  \/ GenerateReturn
  \/ AssignLoop
  \/ AssignReturn
  \/ EliminatePeer
  \/ EliminateUnit
  \/ EliminateReturn

\* The call runs on, and the random stream of an attempt is drawn fairly:
\* a stream that can be drawn again and again is drawn.
GenFairSpec ==
  /\ Init
  /\ [][GenNext]_vars
  /\ WF_vars(GenNext)
  /\ \A i \in 1..NumSeeds : SF_vars(GenerateAttempt(i))

----------------------------------------------------------------------------
(* Notions the properties are stated with *)

Range(f) == {f[i] : i \in DOMAIN f}

\* every unit holds every digit in exactly one square, as a lone candidate
Valid(vals) ==
  \A i \in 1..27 : \A d \in digits :
    Cardinality({s \in unitlist[i] : vals[s] = {d}}) = 1

\* no square is empty and every unit has a place for every digit
Consistent(vals) ==
  /\ \A s \in squares : vals[s] # {}
  /\ \A i \in 1..27 : \A d \in digits : \E s \in unitlist[i] : d \in vals[s]

\* the positions on the stack of the calls of fn
FramesOf(fn) == {i \in 1..Len(stack) : stack[i].fn = fn}

\* A call of assign or eliminate is running (such a call is always the
\* innermost one: the two call nothing but each other).
Propagating == Running("assign") \/ Running("eliminate")

\* The last call returned false.
Failed == ret = "false"

\* The candidate map of the State the innermost call works on.  Between
\* the return of a child's internal_solve and the next step of search,
\* `values` still holds the child's map, and search's own is the saved one.
Current ==
  IF Running("search") /\ Top.pc = "loop" /\ Failed THEN Top.saved ELSE values

\* A search has returned true: the grid is solved and is on its way to the
\* caller of solve, the choices that led to it no longer on the stack.
Found ==
  /\ ret = "true"
  /\ \/ Running("search") /\ Top.pc = "loop"
     \/ Running("internal_solve") /\ Top.pc = "search"
     \/ Running("solve") /\ Top.pc = "search"

\* how many entries of start_state apply_start_state has taken up
Taken ==
  IF FramesOf("apply_start_state") = {} THEN Len(start_state)
  ELSE Len(start_state)
         - Len(stack[CHOOSE i \in FramesOf("apply_start_state") : TRUE].rest)

\* the entries of start_state that apply_start_state is done with
Applied ==
  IF FramesOf("apply_start_state") = {} \/ Running("apply_start_state")
  THEN 1..Taken
  ELSE 1..(Taken - 1)

\* the calls of internal_solve whose assign has returned true
Chosen == {i \in FramesOf("internal_solve") : stack[i].pc = "search"}

\* completed grids: the solutions of the puzzles of main.rs
easy_completed ==
  <<
    4, 8, 3, 9, 2, 1, 6, 5, 7,
    9, 6, 7, 3, 4, 5, 8, 2, 1,
    2, 5, 1, 8, 7, 6, 4, 9, 3,
    5, 4, 8, 1, 3, 2, 9, 7, 6,
    7, 2, 9, 5, 6, 4, 1, 3, 8,
    1, 3, 6, 7, 9, 8, 2, 4, 5,
    3, 7, 2, 6, 8, 9, 5, 1, 4,
    8, 1, 4, 2, 5, 3, 7, 6, 9,
    6, 9, 5, 4, 1, 7, 3, 8, 2
  >>

hard_completed ==
  <<
    4, 1, 7, 3, 6, 9, 8, 2, 5,
    6, 3, 2, 1, 5, 8, 9, 4, 7,
    9, 5, 8, 7, 2, 4, 3, 1, 6,
    8, 2, 5, 4, 3, 7, 1, 6, 9,
    7, 9, 1, 5, 8, 6, 4, 3, 2,
    3, 4, 6, 9, 1, 2, 7, 5, 8,
    2, 8, 9, 6, 4, 3, 5, 7, 1,
    5, 7, 3, 2, 9, 1, 6, 8, 4,
    1, 6, 4, 8, 7, 5, 2, 9, 3
  >>

hardest_completed ==
  <<
    3, 7, 8, 9, 1, 6, 2, 4, 5,
    6, 5, 9, 7, 4, 2, 3, 1, 8,
    2, 1, 4, 5, 3, 8, 9, 6, 7,
    1, 4, 5, 6, 7, 9, 8, 3, 2,
    8, 2, 3, 4, 5, 1, 6, 7, 9,
    7, 9, 6, 2, 8, 3, 1, 5, 4,
    4, 8, 1, 3, 2, 5, 7, 9, 6,
    5, 6, 2, 1, 9, 7, 4, 8, 3,
    9, 3, 7, 8, 6, 4, 5, 2, 1
  >>

\* the grid a start state spells out when it has a digit for every square
AsGrid(state) ==
  [s \in squares |-> state[CHOOSE i \in DOMAIN state : state[i][1] = s][2]]

IsFull(state) ==
  \A s \in squares : \E i \in DOMAIN state : state[i][1] = s /\ state[i][2] \in digits

IsGrid(g) == Valid([s \in squares |-> {g[s]}])

\* valid completed grids, known without the solver
Known == {g \in {Pattern, easy_completed, hard_completed, hardest_completed} : IsGrid(g)}

\* g has the digit of every non-zero entry of state among the positions I
Compatible(g, state, I) ==
  \A i \in I : state[i][2] # 0 => g[state[i][1]] = state[i][2]

\* the known valid completed grids of the start state being solved
Completions ==
  {g \in Known : Compatible(g, start_state, DOMAIN start_state)}
    \cup (IF IsFull(start_state) /\ IsGrid(AsGrid(start_state))
             /\ Compatible(AsGrid(start_state), start_state, DOMAIN start_state)
          THEN {AsGrid(start_state)} ELSE {})

\* two entries put one digit on two squares of one unit
Conflict(state) ==
  \E i \in DOMAIN state :
    /\ state[i][2] # 0
    /\ \E j \in DOMAIN state :
         /\ state[i][2] = state[j][2]
         /\ state[j][1] \in peers[state[i][1]]

----------------------------------------------------------------------------
(* Properties of solve *)

\* C1: whenever solve returns success, each of the 81 squares has exactly
\* one candidate, and each of the 27 units holds every digit 1..9 exactly
\* once among them.
C1_SolvedGridIsValid ==
  result = "Ok" =>
    /\ \A s \in squares : Cardinality(values[s]) = 1
    /\ Valid(values)

\* a solve that had to backtrack has returned success
C1_Witness ==
  /\ result = "Ok"
  /\ start_state = parse(Masked(4, 0))

\* C2 (result): when solve returns success, the returned grid has exactly
\* {digit} at the square of every non-zero clue.
C2_CluesHonoured ==
  result = "Ok" =>
    \A i \in DOMAIN start_state :
      start_state[i][2] # 0 => values[start_state[i][1]] = {start_state[i][2]}

\* C2 (later steps): unless a propagation has just failed, the square of
\* every clue applied so far and of every choice search has made on the way
\* to the running call holds exactly the digit assigned to it.
C2_AssignedStays ==
  (start_state # <<>> /\ ~Failed) =>
    /\ \A i \in Applied :
         start_state[i][2] # 0 => values[start_state[i][1]] = {start_state[i][2]}
    /\ \A i \in Chosen : values[stack[i].square] = {stack[i].value}

\* C2 (assign): a call of assign(square, value) that returns true leaves
\* square with the candidates {value}.
C2_AssignSets ==
  (Running("assign") /\ stack' = Tail(stack) /\ ret' = "true")
    => values'[Top.square] = {Top.value}

\* C2: clues are honoured in the result; an assign that succeeds leaves
\* {value}, and the square keeps it through later propagation and search.
C2_Assign ==
  /\ [](C2_CluesHonoured /\ C2_AssignedStays)
  /\ [][C2_AssignSets]_vars

\* the hard puzzle is solved, its clues in place
C2_Witness ==
  /\ result = "Ok"
  /\ start_state = parse(hard)
  /\ values[1] = {4}

\* C3 (propagation): while a solve runs and has not found its solution, a
\* valid completed grid that agrees with the clues taken up and the choices
\* made so far keeps all its digits as candidates, and no call fails except
\* a child of search tried before the candidate the grid has.
C3_Sound ==
  (start_state # <<>> /\ stack # <<>> /\ ~Found) =>
    \A g \in Known :
      (/\ Compatible(g, start_state, 1..Taken)
       /\ \A i \in FramesOf("internal_solve") : g[stack[i].square] = stack[i].value)
      => /\ \A s \in squares : g[s] \in Current[s]
         /\ Failed => /\ Running("search")
                      /\ Top.pc = "loop"
                      /\ g[Top.square] \in Range(Top.rest)

\* C3 (search): search sets out with every candidate of the square it chose,
\* each once, and returns false only after the last of them.
C3_Exhaustive ==
  /\ (Running("search") /\ Top.pc = "enter" /\ ~is_solved(values))
       => /\ Range(stack'[1].rest) = values[stack'[1].square]
          /\ Len(stack'[1].rest) = Cardinality(values[stack'[1].square])
  /\ (Running("search") /\ Top.pc = "loop" /\ stack' = Tail(stack) /\ ret' = "false")
       => Top.rest = <<>>

\* C3 (result): solve does not fail on a start state that has a valid
\* completed grid.
C3_Complete == result = "Failed solving puzzle" => Completions = {}

\* C3: solve reports failure only when the puzzle has no solution.
C3_FailsOnlyUnsolvable ==
  /\ [](C3_Complete /\ C3_Sound)
  /\ [][C3_Exhaustive]_vars

\* the blank grid is solved, and a puzzle with a solution is solved after a
\* candidate of search had failed
C3_Witness ==
  \/ /\ result = "Ok"
     /\ start_state = parse(blank)
  \/ /\ Completions # {}
     /\ Running("search") /\ Top.pc = "loop" /\ Failed

\* C4: a start state with one digit on two squares of a unit is not solved,
\* and no call of search begins for it.
C4_ConflictFails ==
  (start_state # <<>> /\ (result = "Ok" \/ Running("search")))
    => ~Conflict(start_state)

\* solve has failed on the grid of 81 fives
C4_Witness ==
  /\ start_state = parse(fives)
  /\ Conflict(start_state)
  /\ result = "Failed solving puzzle"

----------------------------------------------------------------------------
(* Properties of generate *)

\* C5: a start state generate(n) returns holds exactly the squares with one
\* candidate in the grid state it was made from, each once with its digit;
\* it has at least n entries, and its entries have at least 8 distinct digits.
C5_GeneratedIsSingles ==
  generated # <<>> =>
    /\ Len(generated[1]) >= n
    /\ Cardinality({generated[1][i][2] : i \in DOMAIN generated[1]}) >= 8
    /\ start_state = <<>> =>
         /\ Range(generated[1])
              = {e \in squares \X digits : values[e[1]] = {e[2]}}
         /\ Len(generated[1]) = Cardinality(singles(values))

\* generate(17) has returned a start state that leaves squares open
C5_Witness ==
  /\ generated # <<>>
  /\ n = 17
  /\ start_state = <<>>
  /\ Len(generated[1]) < 81

\* C6: solve does not fail on a start state generate has returned.
C6_GeneratedIsSolvable ==
  generated # <<>> => result # "Failed solving puzzle"

\* the call of generate is running
Generating == FramesOf("generate") # {}

\* C7 as stated, for every n: a call of generate returns a start state.
C7_AlwaysReturns == Generating ~> (generated # <<>>)

\* C7 (retry): after an attempt that failed, generate goes on with randomize
\* on a new grid; nothing but a start state comes out of the call.
C7_Retries ==
  (Running("generate") /\ Failed)
    => /\ values' = NewValues
       /\ Len(stack') = 2
       /\ stack'[1].fn = "randomize"
       /\ Len(stack'[1].rest) = 81
       /\ generated' = <<>>
       /\ result' = "none"

\* C7 for n up to 81, the number of squares: a call of generate(n) returns a
\* start state, whatever attempts fail before.
C7_ReturnsUpTo81 ==
  /\ (Generating /\ n <= 81) ~> (generated # <<>>)
  /\ [][C7_Retries]_vars

\* generate(81) has returned
C7_Witness ==
  /\ n = 81
  /\ generated # <<>>
  /\ stack = <<>>

----------------------------------------------------------------------------
(* Properties of assign and eliminate *)

\* C8 (state): when no assign or eliminate is running and none has failed,
\* the grid is consistent; a square is empty only after a failure.
C8_Consistent ==
  /\ (~Propagating /\ ~Failed) => Consistent(values)
  /\ (\E s \in squares : values[s] = {}) => Failed

\* C8 (failure): a failure goes up through every running assign and
\* eliminate: each returns false at once and leaves the grid alone.
C8_FailurePropagates ==
  (Propagating /\ Failed)
    => /\ stack' = Tail(stack)
       /\ ret' = "false"
       /\ values' = values

\* C8: after calls of assign and eliminate that returned success the grid is
\* consistent, and a call that breaks consistency returns failure through
\* all its callers.
C8_ConsistentOrFailed ==
  /\ []C8_Consistent
  /\ [][C8_FailurePropagates]_vars

\* randomize stands between two assigns that returned true
C8_Witness ==
  /\ Running("randomize")
  /\ ret = "true"
  /\ Cardinality(singles(values)) >= 2

\* C9 (step): a step on one State takes candidates away at most; the clone
\* search makes, and the state search adopts from it, have no candidate that
\* the State of search had not.
C9_Shrinks ==
  /\ (stack # <<>> /\ ~Running("generate") /\ ~(Running("search") /\ Top.pc = "loop"))
       => \A s \in squares : values'[s] \subseteq values[s]
  /\ (Running("search") /\ Top.pc = "loop")
       => \A s \in squares : values'[s] \subseteq Top.saved[s]

\* C9 (state): candidates are digits, no more than those of any State the
\* running one was cloned from, and from 1 to 9 of them after successful
\* propagation.
C9_Within ==
  /\ \A s \in squares : values[s] \subseteq digits
  /\ \A i \in FramesOf("search") :
       stack[i].pc = "loop" => \A s \in squares : values[s] \subseteq stack[i].saved[s]
  /\ (~Propagating /\ ~Failed)
       => \A s \in squares : Cardinality(values[s]) \in 1..9

\* C9: candidate sets never grow.
C9_NeverGrows ==
  /\ []C9_Within
  /\ [][C9_Shrinks]_vars

\* search has taken over the state of a child
C9_Witness ==
  /\ Running("internal_solve")
  /\ Top.pc = "search"
  /\ ret = "true"
  /\ FramesOf("search") # {}

\* C10 (step): eliminate of a value the square no longer has returns true and leaves
\* the grid as it is, no call made for a peer or a unit; assign of the value
\* that is the only candidate of the square returns true and leaves the grid
\* as it is.
C10_Redundant ==
  /\ (Running("assign") /\ ~Failed /\ Top.rest # <<>>
        /\ Head(Top.rest) \notin values[Top.square])
       => values' = values /\ ret' = "true" /\ stack' = Advance
  /\ (Running("eliminate") /\ ~Failed /\ Top.rest # <<>>
        /\ Top.d2 \notin values[Head(Top.rest)])
       => values' = values /\ ret' = "true" /\ stack' = Advance
  /\ (Running("assign") /\ ret = "none" /\ values[Top.square] = {Top.value})
       => values' = values /\ ret' = "true" /\ stack' = Tail(stack)

\* C10: redundant propagation is a no-op, at every step of every run.
C10_NoOp == [][C10_Redundant]_vars

\* the clue given twice has been applied twice
C10_Witness ==
  /\ Running("apply_start_state")
  /\ start_state[1] = start_state[2]
  /\ Taken = 2
  /\ ret = "true"

====
